---- MODULE Spec2Model ----
(***************************************************************************)
(* Model of the Codeforces API client, src/codeforces/methods.py and the   *)
(* pydantic result shapes of src/codeforces/objects.py.                    *)
(*                                                                         *)
(* One call of an endpoint function is modelled in two steps: the call     *)
(* action builds the payload (signing it for user.friends) and issues the  *)
(* GET; one of the Recv actions then feeds the outcome of requests.get to  *)
(* the rest of the function body (status test, r.json()["result"],         *)
(* parse_obj, the except clauses, the final return None).                  *)
(***************************************************************************)
EXTENDS Integers, Sequences, FiniteSets, TLC

VARIABLES pc, method, args, payload, query, auth, sent, response, outcome, printed

vars == <<pc, method, args, payload, query, auth, sent, response, outcome, printed>>

(***************************************************************************)
(* Bounds of the model.                                                    *)
(***************************************************************************)
MaxHandles == 2
MaxResultLen == 2

(***************************************************************************)
(* Python values that occur as arguments and payload values.               *)
(***************************************************************************)
PyNone == [t |-> "None"]
PyBool(b) == [t |-> "bool", b |-> b]
PyInt(i) == [t |-> "int", i |-> i]
PyStr(s) == [t |-> "str", s |-> s]
PyList(l) == [t |-> "list", l |-> l]

RECURSIVE NatToStr(_)
NatToStr(n) ==
    IF n < 10 THEN SubSeq("0123456789", n + 1, n + 1)
    ELSE NatToStr(n \div 10) \o SubSeq("0123456789", (n % 10) + 1, (n % 10) + 1)

IntToStr(i) == IF i < 0 THEN "-" \o NatToStr(-i) ELSE NatToStr(i)

RECURSIVE Join(_, _)
Join(sep, l) ==
    IF l = <<>> THEN ""
    ELSE IF Len(l) = 1 THEN l[1]
    ELSE l[1] \o sep \o Join(sep, Tail(l))

RECURSIVE MapSeq(_, _)
MapSeq(F(_), l) == IF l = <<>> THEN <<>> ELSE <<F(l[1])>> \o MapSeq(F, Tail(l))

Quote(s) == "'" \o s \o "'"

\* str(v), as the f-strings and urlencode render a value
Str(v) ==
    CASE v.t = "None" -> "None"
      [] v.t = "bool" -> (IF v.b THEN "True" ELSE "False")
      [] v.t = "int" -> IntToStr(v.i)
      [] v.t = "str" -> v.s
      [] v.t = "list" -> "[" \o Join(", ", MapSeq(Quote, v.l)) \o "]"

\* bool(v), as `if handles` tests it
Truthy(v) ==
    CASE v.t = "None" -> FALSE
      [] v.t = "bool" -> v.b
      [] v.t = "int" -> v.i # 0
      [] v.t = "str" -> v.s # ""
      [] v.t = "list" -> v.l # <<>>

(***************************************************************************)
(* A dict is the sequence of its items in insertion order, keys unique.    *)
(***************************************************************************)
Item(k, v) == [k |-> k, v |-> v]

Keys(d) == {d[i].k : i \in 1..Len(d)}

\* d[k] = v
DictSet(d, k, v) ==
    IF k \in Keys(d)
    THEN [i \in 1..Len(d) |-> IF d[i].k = k THEN Item(k, v) ELSE d[i]]
    ELSE Append(d, Item(k, v))

DictGet(d, k) == d[CHOOSE i \in 1..Len(d) : d[i].k = k].v

(***************************************************************************)
(* Order of str values: code point by code point, then by length.          *)
(***************************************************************************)
CodePoints == "0123456789ABCDEFGHIJKLMNOPQRSTUVWXYZ_abcdefghijklmnopqrstuvwxyz"

Ord(c) == CHOOSE i \in 1..Len(CodePoints) : SubSeq(CodePoints, i, i) = c

RECURSIVE StrLess(_, _)
StrLess(a, b) ==
    IF b = "" THEN FALSE
    ELSE IF a = "" THEN TRUE
    ELSE IF Head(a) = Head(b) THEN StrLess(Tail(a), Tail(b))
    ELSE Ord(Head(a)) < Ord(Head(b))

\* insertion of one item into a list of items sorted by key
RECURSIVE Insert(_, _)
Insert(it, l) ==
    IF l = <<>> THEN <<it>>
    ELSE IF StrLess(it.k, l[1].k) THEN <<it>> \o l
    ELSE <<l[1]>> \o Insert(it, Tail(l))

\* a variant that leaves the items in insertion order
UnsortedItems(d) == d

\* sorted(payload.items()): the keys of a dict differ, so the key decides
RECURSIVE SortedItems(_)
SortedItems(d) ==
    IF d = <<>> THEN <<>> ELSE Insert(d[1], SortedItems(Tail(d)))

(***************************************************************************)
(* getCfAuth.                                                              *)
(***************************************************************************)
ParamText(it) == it.k \o "=" \o Str(it.v)

\* hashlib.sha512(data): the hash object, living at some address
Sha512(data, addr) == [name |-> "sha512", data |-> data, addr |-> addr]

\* hash.hexdigest(): lowercase hex text fixed by the hashed bytes alone
HexDigest(h) == "sha512hex(" \o h.data \o ")"

\* str(hash): the default rendering of the object
HashStr(h) == "<" \o h.name \o " _hashlib.HASH object @ " \o h.addr \o ">"

SortedParams(d) == Join("&", MapSeq(ParamText, SortedItems(d)))

RandStr(rand, methodName, d, secret) ==
    rand \o "/" \o methodName \o "?" \o SortedParams(d) \o "#" \o Str(secret)

ApiSig(rand, hash) == rand \o HashStr(hash)

\* the state getCfAuth leaves: the payload it returns and what it computed
getCfAuth(key, secret, methodName, d, currTime, rand, addr) ==
    LET p1 == DictSet(d, "apiKey", key)
        p2 == DictSet(p1, "time", PyInt(currTime))
        randStr == RandStr(rand, methodName, p2, secret)
        hash == Sha512(randStr, addr)
    IN  [payload |-> DictSet(p2, "apiSig", PyStr(ApiSig(rand, hash))),
         methodName |-> methodName, secret |-> secret, rand |-> rand,
         randStr |-> randStr, hash |-> hash]

(***************************************************************************)
(* requests.get(url, payload, timeout=timeout): the params of the GET.     *)
(* A str or non-iterable value is one value, an iterable gives one value   *)
(* per element, and None values are left out; every value is sent as its   *)
(* str().  The query is kept as its decoded (name, text) pairs in order.   *)
(***************************************************************************)
ValuesOf(v) == IF v.t = "list" THEN MapSeq(PyStr, v.l) ELSE <<v>>

\* a variant that sends every value, None as its str()
RECURSIVE EncodeValuesKeepNone(_, _)
EncodeValuesKeepNone(k, vs) ==
    IF vs = <<>> THEN <<>>
    ELSE <<Item(k, Str(vs[1]))>> \o EncodeValuesKeepNone(k, Tail(vs))

RECURSIVE EncodeValues(_, _)
EncodeValues(k, vs) ==
    IF vs = <<>> THEN <<>>
    ELSE (IF vs[1].t # "None" THEN <<Item(k, Str(vs[1]))>> ELSE <<>>)
         \o EncodeValues(k, Tail(vs))

RECURSIVE EncodeParams(_)
EncodeParams(d) ==
    IF d = <<>> THEN <<>>
    ELSE EncodeValues(d[1].k, ValuesOf(d[1].v)) \o EncodeParams(Tail(d))

(***************************************************************************)
(* Arguments the callers pass.                                             *)
(***************************************************************************)
Handles == {"tourist", "Petr"}
Tags == {"dp", "math"}

RECURSIVE SeqsUpTo(_, _)
SeqsUpTo(S, n) ==
    IF n = 0 THEN {<<>>}
    ELSE LET shorter == SeqsUpTo(S, n - 1)
         IN  shorter \cup {Append(l, x) : l \in shorter, x \in S}

HandleLists == {PyList(l) : l \in SeqsUpTo(Handles, MaxHandles)}
TagLists == {PyList(l) : l \in SeqsUpTo(Tags, MaxHandles)}
OptBool == {PyNone, PyBool(TRUE), PyBool(FALSE)}
OptFlag == {PyNone, PyBool(TRUE)}
Ids == {PyInt(566)}
OptInt == {PyNone, PyInt(5)}
OptName == {PyNone, PyStr("acmsguru")}
ApiKeys == {PyStr("K")}
Secrets == {PyStr("S"), PyStr("T")}
Times == {1700000000, 1700000001}
Nonces == {"abcdef", "Zy_x01"}
Addrs == {"0x7f3a5c1d2e90", "0x7f3a5c1d2f10"}

\* no call of getCfAuth in this call
NoAuth == [payload |-> <<>>, methodName |-> "", secret |-> PyNone, rand |-> "",
           randStr |-> "", hash |-> Sha512("", "")]
NoResponse == [kind |-> "none"]
NoOutcome == [kind |-> "none"]

\* requests.get is entered: the one GET of the call goes out
Send(methodName, a, p, au) ==
    /\ pc = "idle"
    /\ pc' = "sent"
    /\ method' = methodName
    /\ args' = a
    /\ payload' = p
    /\ query' = EncodeParams(p)
    /\ auth' = au
    /\ sent' = sent + 1
    /\ UNCHANGED <<response, outcome, printed>>

getBlogEntryComments ==
    \E blogEntryId \in Ids :
        Send("blogEntry.comments", [blogEntryId |-> blogEntryId],
             <<Item("blogEntryId", blogEntryId)>>, NoAuth)

getBlogEntryView ==
    \E blogEntryId \in Ids :
        Send("blogEntry.view", [blogEntryId |-> blogEntryId],
             <<Item("blogEntryId", blogEntryId)>>, NoAuth)

getContestHacks ==
    \E contestId \in Ids, asManager \in OptBool :
        Send("contest.hacks", [contestId |-> contestId, asManager |-> asManager],
             <<Item("contestId", contestId), Item("asManager", asManager)>>, NoAuth)

getContestList ==
    \E gym \in OptBool :
        Send("contest.list", [gym |-> gym], <<Item("gym", gym)>>, NoAuth)

getContestRatingChanges ==
    \E contestId \in Ids :
        Send("contest.ratingChanges", [contestId |-> contestId],
             <<Item("contestId", contestId)>>, NoAuth)

getContestStandings ==
    \E contestId \in Ids, asManager \in OptFlag, from_ \in OptInt, count \in OptInt,
       handles \in HandleLists \cup {PyNone}, room \in OptInt, showUnofficial \in OptFlag :
        Send("contest.standings",
             [contestId |-> contestId, asManager |-> asManager, from_ |-> from_,
              count |-> count, handles |-> handles, room |-> room,
              showUnofficial |-> showUnofficial],
             <<Item("contestId", contestId), Item("asManager", asManager),
               Item("from", from_), Item("count", count),
               Item("handles", IF Truthy(handles) THEN PyStr(Join(";", handles.l))
                               ELSE handles)>>,
             NoAuth)

getContestStatus ==
    \E contestId \in Ids, handle \in Handles, from_ \in OptInt, count \in OptInt,
       asManager \in OptFlag :
        Send("contest.status",
             [contestId |-> contestId, handle |-> PyStr(handle), from_ |-> from_,
              count |-> count, asManager |-> asManager],
             <<Item("contestId", contestId), Item("asManager", asManager),
               Item("handle", PyStr(handle)), Item("from", from_),
               Item("count", count)>>,
             NoAuth)

getProblemsetProblems ==
    \E tags \in TagLists, problemsetName \in OptName :
        Send("problemset.problems", [tags |-> tags, problemsetName |-> problemsetName],
             <<Item("tags", PyStr(Join(";", tags.l))),
               Item("problemsetName", problemsetName)>>,
             NoAuth)

getProblemsetRecentStatus ==
    \E count \in Ids, problemsetName \in OptName :
        Send("problemset.recentStatus",
             [count |-> count, problemsetName |-> problemsetName],
             <<Item("count", count), Item("problemsetName", problemsetName)>>, NoAuth)

getRecentActions ==
    \E maxCount \in Ids :
        Send("recentActions", [maxCount |-> maxCount],
             <<Item("maxCount", maxCount)>>, NoAuth)

getUserBlogEntries ==
    \E handle \in Handles :
        Send("user.blogEntries", [handle |-> PyStr(handle)],
             <<Item("handle", PyStr(handle))>>, NoAuth)

getUserFriends ==
    \E key \in ApiKeys, secret \in Secrets, onlyOnline \in OptBool,
       currTime \in Times, rand \in Nonces, addr \in Addrs :
        \E au \in {getCfAuth(key, secret, "user.friends",
                             <<Item("onlyOnline", onlyOnline)>>, currTime, rand, addr)} :
            Send("user.friends",
                 [key |-> key, secret |-> secret, onlyOnline |-> onlyOnline],
                 au.payload, au)

getUserInfo ==
    \E handles \in HandleLists :
        Send("user.info", [handles |-> handles],
             <<Item("handles", PyStr(Join(";", handles.l)))>>, NoAuth)

getUserRatedList ==
    \E activeOnly \in OptFlag, includeRetired \in OptFlag, contestId \in OptInt :
        Send("user.ratedList",
             [activeOnly |-> activeOnly, includeRetired |-> includeRetired,
              contestId |-> contestId],
             <<Item("activeOnly", activeOnly), Item("includeRetired", includeRetired),
               Item("contestId", contestId)>>,
             NoAuth)

getUserRating ==
    \E handle \in Handles :
        Send("user.rating", [handle |-> PyStr(handle)],
             <<Item("handle", PyStr(handle))>>, NoAuth)

getUserStatus ==
    \E handle \in Handles, from_ \in OptInt, count \in OptInt :
        Send("user.status", [handle |-> PyStr(handle), from_ |-> from_, count |-> count],
             <<Item("handle", PyStr(handle))>>, NoAuth)

(***************************************************************************)
(* JSON values, as r.json() returns them (Python objects).                 *)
(***************************************************************************)
\* null is None
JNull == PyNone
JBool(b) == [t |-> "bool", b |-> b]
JNum(i) == [t |-> "num", i |-> i]
JStr(s) == [t |-> "str", s |-> s]
JList(l) == [t |-> "list", l |-> l]
JObj(o) == [t |-> "obj", o |-> o]

(***************************************************************************)
(* The pydantic models of objects.py and ContestStandings of methods.py:   *)
(* per class, the annotated fields in declaration order.                   *)
(***************************************************************************)
TStr == [k |-> "str"]
TInt == [k |-> "int"]
TBool == [k |-> "bool"]
TStrictInt == [k |-> "StrictInt"]
TNonNegativeInt == [k |-> "NonNegativeInt"]
TPositiveInt == [k |-> "PositiveInt"]
TNonNegativeFloat == [k |-> "NonNegativeFloat"]
TPositiveFloat == [k |-> "PositiveFloat"]
THttpUrl == [k |-> "HttpUrl"]
TOpt(x) == [k |-> "opt", of |-> x]
TList(x) == [k |-> "list", of |-> x]
TModel(cls) == [k |-> "model", cls |-> cls]
TEnum(vals) == [k |-> "enum", vals |-> vals]
TRange(ge, le) == [k |-> "range", ge |-> ge, le |-> le]
TPattern(alts) == [k |-> "pattern", alts |-> alts]
Fld(name, type) == [name |-> name, type |-> type]

ContestType == {"CF", "IOI", "ICPC"}
ContestPhase == {"BEFORE", "CODING", "PENDING_SYSTEM_TEST", "SYSTEM_TEST", "FINISHED"}
ParticipantType == {"CONTESTANT", "PRACTICE", "VIRTUAL", "MANAGER", "OUT_OF_COMPETITION"}
ProblemType == {"PROGRAMMING", "QUESTION"}
Verdict ==
    {"FAILED", "OK", "PARTIAL", "COMPILATION_ERROR", "RUNTIME_ERROR", "WRONG_ANSWER",
     "PRESENTATION_ERROR", "TIME_LIMIT_EXCEEDED", "MEMORY_LIMIT_EXCEEDED",
     "IDLENESS_LIMIT_EXCEEDED", "SECURITY_VIOLATED", "CRASHED",
     "INPUT_PREPARATION_CRASHED", "CHALLENGED", "SKIPPED", "TESTING", "REJECTED"}
TestSet ==
    {"SAMPLES", "PRETESTS", "TESTS", "TESTS1", "TESTS2", "TESTS3", "TESTS4", "TESTS5",
     "TESTS6", "TESTS7", "TESTS8", "TESTS9", "TESTS10"}
HackVerdict ==
    {"HACK_SUCCESSFUL", "HACK_UNSUCCESSFUL", "INVALID_INPUT", "GENERATOR_INCOMPILABLE",
     "GENERATOR_CRASHED", "IGNORED", "TESTING", "OTHER"}
ProblemResultType == {"PRELIMINARY", "FINAL"}
ContestKinds ==
    {"Official ICPC Contest", "Official School Contest", "Opencup Contest",
     "School/University/City/Region Championship", "Training Camp Contest",
     "Official International Personal Contest", "Training Contest"}

DifficultyGe == 1
DifficultyLe == 5

User ==
    <<Fld("handle", TStr), Fld("email", TStr), Fld("vkId", TStr), Fld("openId", TStr),
      Fld("firstName", TOpt(TStr)), Fld("lastNam", TOpt(TStr)),
      Fld("country", TOpt(TStr)), Fld("city", TOpt(TStr)),
      Fld("organization", TOpt(TStr)), Fld("contribution", TStrictInt),
      Fld("rank", TStr), Fld("rating", TStrictInt), Fld("maxRank", TStr),
      Fld("maxRating", TStrictInt), Fld("lastOnlineTimeSeconds", TNonNegativeInt),
      Fld("registrationTimeSeconds", TNonNegativeInt),
      Fld("friendOfCount", TNonNegativeInt), Fld("avatar", THttpUrl),
      Fld("titlePhoto", THttpUrl)>>

BlogEntry ==
    <<Fld("id", TInt), Fld("originalLocale", TStr),
      Fld("creationTimeSeconds", TNonNegativeInt), Fld("authorHandle", TStr),
      Fld("title", TStr), Fld("content", TStr), Fld("locale", TStr),
      Fld("modificationTimeSeconds", TNonNegativeInt), Fld("allowViewHistory", TBool),
      Fld("tags", TList(TStr)), Fld("rating", TStrictInt)>>

Comment ==
    <<Fld("id", TInt), Fld("creationTimeSeconds", TNonNegativeInt),
      Fld("commentatorHandle", TStr), Fld("locale", TStr), Fld("text", TStr),
      Fld("parentCommentId", TOpt(TInt)), Fld("rating", TNonNegativeInt)>>

RecentAction ==
    <<Fld("timeSeconds", TNonNegativeInt), Fld("blogEntry", TModel("BlogEntry")),
      Fld("comment", TModel("Comment"))>>

RatingChange ==
    <<Fld("contestId", TInt), Fld("contestName", TStr), Fld("handle", TStr),
      Fld("rank", TPositiveInt), Fld("ratingUpdateTimeSeconds", TNonNegativeInt),
      Fld("oldRating", TNonNegativeInt), Fld("newRating", TNonNegativeInt)>>

Contest ==
    <<Fld("id", TInt), Fld("name", TStr), Fld("type", TEnum(ContestType)),
      Fld("phase", TEnum(ContestPhase)), Fld("frozen", TBool),
      Fld("durationSeconds", TNonNegativeInt),
      Fld("startTimeSeconds", TOpt(TNonNegativeInt)),
      Fld("relativeTimeSeconds", TOpt(TStrictInt)), Fld("preparedBy", TOpt(TStr)),
      Fld("websiteUrl", TOpt(THttpUrl)), Fld("description", TOpt(TStr)),
      Fld("difficulty", TOpt(TRange(DifficultyGe, DifficultyLe))),
      Fld("kind", TOpt(TPattern(ContestKinds))), Fld("icpcRegion", TOpt(TStr)),
      Fld("country", TOpt(TStr)), Fld("city", TOpt(TStr)), Fld("season", TOpt(TStr))>>

Member == <<Fld("handle", TStr), Fld("name", TOpt(TStr))>>

Party ==
    <<Fld("contestId", TOpt(TInt)), Fld("members", TList(TModel("Member"))),
      Fld("participantType", TEnum(ParticipantType)), Fld("teamId", TOpt(TInt)),
      Fld("teamName", TOpt(TStr)), Fld("ghost", TBool), Fld("room", TOpt(TInt)),
      Fld("startTimeSeconds", TOpt(TNonNegativeInt))>>

Problem ==
    <<Fld("contestId", TOpt(TInt)), Fld("problemsetName", TOpt(TStr)),
      Fld("index", TStr), Fld("name", TStr), Fld("type", TEnum(ProblemType)),
      Fld("points", TOpt(TPositiveFloat)), Fld("rating", TOpt(TNonNegativeInt)),
      Fld("tags", TList(TStr))>>

ProblemStatistics ==
    <<Fld("contestId", TOpt(TInt)), Fld("index", TStr),
      Fld("solvedCount", TNonNegativeInt)>>

Submission ==
    <<Fld("id", TInt), Fld("contestId", TOpt(TInt)),
      Fld("creationTimeSeconds", TOpt(TNonNegativeInt)),
      Fld("relativeTimeSeconds", TInt), Fld("problem", TModel("Problem")),
      Fld("author", TModel("Party")), Fld("programmingLanguage", TStr),
      Fld("verdict", TOpt(TEnum(Verdict))), Fld("testset", TEnum(TestSet)),
      Fld("passedTestCount", TNonNegativeInt),
      Fld("timeConsumedMillis", TNonNegativeInt),
      Fld("memoryConsumedBytes", TNonNegativeInt),
      Fld("points", TOpt(TNonNegativeFloat))>>

JudgeProtocol ==
    <<Fld("manual", TBool), Fld("protocol", TStr), Fld("verdict", TEnum(HackVerdict))>>

Hack ==
    <<Fld("id", TInt), Fld("creationTimeSeconds", TNonNegativeInt),
      Fld("hacker", TModel("Party")), Fld("defender", TModel("Party")),
      Fld("verdict", TOpt(TEnum(HackVerdict))), Fld("problem", TModel("Problem")),
      Fld("test", TOpt(TStr)), Fld("judgeProtocol", TOpt(TModel("JudgeProtocol")))>>

ProblemResult ==
    <<Fld("points", TNonNegativeFloat), Fld("penalty", TOpt(TInt)),
      Fld("rejectedAttemptCount", TNonNegativeInt),
      Fld("type", TEnum(ProblemResultType)),
      Fld("bestSubmissionTimeSeconds", TOpt(TNonNegativeInt))>>

RanklistRow ==
    <<Fld("party", TModel("Party")), Fld("rank", TPositiveInt),
      Fld("points", TNonNegativeFloat), Fld("penalty", TInt),
      Fld("successfulHackCount", TNonNegativeInt),
      Fld("unsuccessfulHackCount", TNonNegativeInt),
      Fld("problemResults", TList(TModel("ProblemResult"))),
      Fld("lastSubmissionTimeSeconds", TOpt(TNonNegativeInt))>>

ContestStandings ==
    <<Fld("contest", TModel("Contest")), Fld("problems", TList(TModel("Problem"))),
      Fld("rows", TList(TModel("RanklistRow")))>>

FieldsOf(cls) ==
    CASE cls = "User" -> User
      [] cls = "BlogEntry" -> BlogEntry
      [] cls = "Comment" -> Comment
      [] cls = "RecentAction" -> RecentAction
      [] cls = "RatingChange" -> RatingChange
      [] cls = "Contest" -> Contest
      [] cls = "Member" -> Member
      [] cls = "Party" -> Party
      [] cls = "Problem" -> Problem
      [] cls = "ProblemStatistics" -> ProblemStatistics
      [] cls = "Submission" -> Submission
      [] cls = "JudgeProtocol" -> JudgeProtocol
      [] cls = "Hack" -> Hack
      [] cls = "ProblemResult" -> ProblemResult
      [] cls = "RanklistRow" -> RanklistRow
      [] cls = "ContestStandings" -> ContestStandings

(***************************************************************************)
(* cls.parse_obj(obj).  The result is the typed object (every declared     *)
(* field, undeclared keys ignored) or a ValidationError.  objects.py pins  *)
(* no pydantic release; the two release lines differ on a missing          *)
(* Optional field (1.x: None, 2.x: required) and on Field(pattern=...)     *)
(* (1.x: ignored, 2.x: searched), so the line is a parameter.  A JSON      *)
(* value of another JSON type than the annotation is rejected.             *)
(***************************************************************************)
Builds == {"pydantic1", "pydantic2"}

Ok(v) == [ok |-> TRUE, v |-> v]
Err == [ok |-> FALSE]
Typed(cls, f) == [t |-> "model", cls |-> cls, f |-> f]

HasPrefix(s, p) == Len(s) > Len(p) /\ SubSeq(s, 1, Len(p)) = p
IsHttpUrl(s) == HasPrefix(s, "http://") \/ HasPrefix(s, "https://")
Contains(s, sub) ==
    \E i \in 1..Len(s) : i + Len(sub) - 1 <= Len(s) /\ SubSeq(s, i, i + Len(sub) - 1) = sub

FieldNames(fs) == {fs[i].name : i \in 1..Len(fs)}
FieldIndex(fs, name) == CHOOSE i \in 1..Len(fs) : fs[i].name = name

RECURSIVE ParseValue(_, _, _)
RECURSIVE ParseModel(_, _, _)

ParseField(f, o, build) ==
    IF f.name \in DOMAIN o THEN ParseValue(f.type, o[f.name], build)
    ELSE IF f.type.k = "opt" /\ build = "pydantic1" THEN Ok(JNull)
    ELSE Err

\* the typed object of the validated fields, or the error of any of them
ModelOf(cls, fs, res) ==
    IF \A i \in 1..Len(fs) : res[i].ok
    THEN Ok(Typed(cls, [n \in FieldNames(fs) |-> res[FieldIndex(fs, n)].v]))
    ELSE Err

ParseFields(cls, fs, o, build) ==
    ModelOf(cls, fs, [i \in 1..Len(fs) |-> ParseField(fs[i], o, build)])

ParseModel(cls, v, build) ==
    IF v.t # "obj" THEN Err ELSE ParseFields(cls, FieldsOf(cls), v.o, build)

ListOf(res) ==
    IF \A i \in 1..Len(res) : res[i].ok
    THEN Ok(JList([i \in 1..Len(res) |-> res[i].v]))
    ELSE Err

\* a variant of the bounds check that leaves out the upper bound
InRangeNoUpper(type, i) == i >= type.ge

\* Field(ge=..., le=...): both bounds are inclusive
InRange(type, i) == i >= type.ge /\ i <= type.le

ParseValue(type, v, build) ==
    CASE type.k = "str" -> IF v.t = "str" THEN Ok(v) ELSE Err
      [] type.k = "bool" -> IF v.t = "bool" THEN Ok(v) ELSE Err
      [] type.k \in {"int", "StrictInt"} -> IF v.t = "num" THEN Ok(v) ELSE Err
      [] type.k \in {"NonNegativeInt", "NonNegativeFloat"} ->
            IF v.t = "num" /\ v.i >= 0 THEN Ok(v) ELSE Err
      [] type.k \in {"PositiveInt", "PositiveFloat"} ->
            IF v.t = "num" /\ v.i > 0 THEN Ok(v) ELSE Err
      [] type.k = "range" ->
            IF v.t = "num" /\ InRange(type, v.i) THEN Ok(v) ELSE Err
      [] type.k = "HttpUrl" -> IF v.t = "str" /\ IsHttpUrl(v.s) THEN Ok(v) ELSE Err
      [] type.k = "enum" -> IF v.t = "str" /\ v.s \in type.vals THEN Ok(v) ELSE Err
      [] type.k = "pattern" ->
            IF v.t # "str" THEN Err
            ELSE IF build = "pydantic1" THEN Ok(v)
            ELSE IF \E a \in type.alts : Contains(v.s, a) THEN Ok(v)
            ELSE Err
      [] type.k = "opt" ->
            IF v = JNull THEN Ok(JNull) ELSE ParseValue(type.of, v, build)
      [] type.k = "list" ->
            IF v.t # "list" THEN Err
            ELSE ListOf([i \in 1..Len(v.l) |-> ParseValue(type.of, v.l[i], build)])
      [] type.k = "model" -> ParseModel(type.cls, v, build)

parse_obj(cls, obj, build) == ParseModel(cls, obj, build)

(***************************************************************************)
(* The rest of an endpoint body once requests.get has returned r with      *)
(* r.status_code == 200: r.json()["result"], then the decoding of the      *)
(* result.  An outcome is the value returned or the exception raised.      *)
(***************************************************************************)
Return(v) == [kind |-> "return", value |-> v]
Raise(exc) == [kind |-> "raise", exc |-> exc]

\* iter(x) of a JSON value: a list gives its elements, a dict its keys, a
\* str its characters; anything else is not iterable
Iterable(x) == x.t \in {"list", "obj", "str"}

RECURSIVE SetToSeq(_)
SetToSeq(S) ==
    IF S = {} THEN <<>>
    ELSE LET x == CHOOSE y \in S : \A z \in S : z = y \/ StrLess(y, z)
         IN  <<x>> \o SetToSeq(S \ {x})

Elements(x) ==
    CASE x.t = "list" -> x.l
      [] x.t = "obj" -> MapSeq(JStr, SetToSeq(DOMAIN x.o))
      [] x.t = "str" -> [i \in 1..Len(x.s) |-> JStr(SubSeq(x.s, i, i))]

\* a variant that builds the list back to front
CollectReversed(res) ==
    IF \A i \in 1..Len(res) : res[i].ok
    THEN Return(JList([i \in 1..Len(res) |-> res[Len(res) + 1 - i].v]))
    ELSE Raise("ValidationError")

\* the list a comprehension builds, unless a parse_obj in it raised
Collect(res) ==
    IF \A i \in 1..Len(res) : res[i].ok
    THEN Return(JList([i \in 1..Len(res) |-> res[i].v]))
    ELSE Raise("ValidationError")

ParseAll(cls, es, build) ==
    Collect([i \in 1..Len(es) |-> parse_obj(cls, es[i], build)])

\* [cls.parse_obj(e) for e in result]
ParseEach(cls, result, build) ==
    IF ~Iterable(result) THEN Raise("TypeError")
    ELSE ParseAll(cls, Elements(result), build)

ParseOne(cls, result, build) ==
    LET res == parse_obj(cls, result, build)
    IN  IF res.ok THEN Return(res.v) ELSE Raise("ValidationError")

\* the returned tuple of the two comprehensions, the first evaluated first
TupleOf(problems, problemStatistics) ==
    IF problems.kind = "raise" THEN problems
    ELSE IF problemStatistics.kind = "raise" THEN problemStatistics
    ELSE Return([t |-> "tuple", l |-> <<problems.value, problemStatistics.value>>])

\* problems, problemStatistics = result, then the two comprehensions
ParsePair(result, build) ==
    IF ~Iterable(result) THEN Raise("TypeError")
    ELSE IF Len(Elements(result)) # 2 THEN Raise("ValueError")
    ELSE TupleOf(ParseEach("Problem", Elements(result)[1], build),
                 ParseEach("ProblemStatistics", Elements(result)[2], build))

ListMethods ==
    {"blogEntry.comments", "contest.hacks", "contest.list", "contest.ratingChanges",
     "contest.status", "problemset.recentStatus", "recentActions", "user.blogEntries",
     "user.info", "user.ratedList", "user.rating", "user.status"}

\* the class of the comprehension `[X.parse_obj(e) for e in result]`
ElementClass(methodName) ==
    CASE methodName = "blogEntry.comments" -> "Comment"
      [] methodName = "contest.hacks" -> "Hack"
      [] methodName = "contest.list" -> "Contest"
      [] methodName \in {"contest.ratingChanges", "user.rating"} -> "RatingChange"
      [] methodName \in {"contest.status", "problemset.recentStatus", "user.status"} ->
            "Submission"
      [] methodName = "recentActions" -> "RecentAction"
      [] methodName = "user.blogEntries" -> "BlogEntry"
      [] methodName \in {"user.info", "user.ratedList"} -> "User"

\* the statements after `result = r.json()["result"]`
Decode(methodName, result, build) ==
    CASE methodName \in ListMethods -> ParseEach(ElementClass(methodName), result, build)
      [] methodName = "blogEntry.view" -> ParseOne("BlogEntry", result, build)
      [] methodName = "contest.standings" -> ParseOne("ContestStandings", result, build)
      [] methodName = "problemset.problems" -> ParsePair(result, build)
      [] methodName = "user.friends" -> Return(result)

\* r.json(): the body parsed, or JSONDecodeError
NotJson(text) == [json |-> FALSE, text |-> text]
Json(v) == [json |-> TRUE, value |-> v]

\* r.json()["result"] and what follows it
OnBody(methodName, body, build) ==
    IF ~body.json THEN Raise("JSONDecodeError")
    ELSE IF body.value.t # "obj" THEN Raise("TypeError")
    ELSE IF "result" \notin DOMAIN body.value.o THEN Raise("KeyError")
    ELSE Decode(methodName, body.value.o["result"], build)

\* what requests.get gave: an exception it raised, or the response r
Raised(exc) == [kind |-> "exception", exc |-> exc]
Http(status, body) == [kind |-> "http", status |-> status, body |-> body]

StatusOk == 200

\* the try block: requests.get, then `if r.status_code == 200:` and its body;
\* "fallthrough" is the block ending without a return
TryBlock(methodName, got, build) ==
    IF got.kind = "exception" THEN Raise(got.exc)
    ELSE IF got.status = StatusOk THEN OnBody(methodName, got.body, build)
    ELSE [kind |-> "fallthrough"]

\* the except clauses of the endpoint functions
Caught == {"Timeout", "ConnectionError", "HTTPError"}

Message(methodName, exc, got) ==
    CASE exc = "Timeout" ->
            "Timeout on request to " \o methodName \o " after 9.01 seconds."
      [] exc = "ConnectionError" ->
            "Connection error on request to " \o methodName \o "."
      [] exc = "HTTPError" ->
            "Unsuccessful response code " \o exc \o " on request to " \o methodName
            \o ". Response recieved is r.json()"

\* the except clauses and the trailing `return None`, t the try block's end
Except(methodName, t, got) ==
    IF t.kind = "raise" /\ t.exc \in Caught
    THEN [outcome |-> Return(PyNone), printed |-> Message(methodName, t.exc, got)]
    ELSE IF t.kind = "fallthrough"
    THEN [outcome |-> Return(PyNone), printed |-> ""]
    ELSE [outcome |-> t, printed |-> ""]

\* the whole of try/except and the trailing `return None`
Endpoint(methodName, got, build) ==
    Except(methodName, TryBlock(methodName, got, build), got)

(***************************************************************************)
(* Responses the stub server gives.  Per class: objects that carry         *)
(* every declared field with a value of its type (Valid), objects both     *)
(* pydantic lines reject (Invalid), and objects that leave out Optional    *)
(* fields or carry an undeclared key, which the lines treat differently    *)
(* (Loose).                                                                *)
(***************************************************************************)
Without(o, ks) == [k \in DOMAIN o \ ks |-> o[k]]

user1 ==
    [handle |-> JStr("tourist"), email |-> JStr("t@example.org"), vkId |-> JStr("1"),
     openId |-> JStr("o1"), firstName |-> JStr("Gennady"), lastNam |-> JNull,
     country |-> JStr("Belarus"), city |-> JStr("Gomel"), organization |-> JNull,
     contribution |-> JNum(-3), rank |-> JStr("legendary grandmaster"),
     rating |-> JNum(3800), maxRank |-> JStr("legendary grandmaster"),
     maxRating |-> JNum(3979), lastOnlineTimeSeconds |-> JNum(1700000000),
     registrationTimeSeconds |-> JNum(1265987288), friendOfCount |-> JNum(70000),
     avatar |-> JStr("https://userpic.codeforces.org/422/avatar/a.jpg"),
     titlePhoto |-> JStr("https://userpic.codeforces.org/422/title/a.jpg")]
user2 == [user1 EXCEPT !.handle = JStr("Petr"), !.rating = JNum(3400)]

blogEntry1 ==
    [id |-> JNum(79), originalLocale |-> JStr("ru"),
     creationTimeSeconds |-> JNum(1267562173), authorHandle |-> JStr("tourist"),
     title |-> JStr("Round 1"), content |-> JStr("text"), locale |-> JStr("en"),
     modificationTimeSeconds |-> JNum(1267562173), allowViewHistory |-> JBool(FALSE),
     tags |-> JList(<<JStr("dp"), JStr("math")>>), rating |-> JNum(-1)]
blogEntry2 == [blogEntry1 EXCEPT !.id = JNum(80), !.tags = JList(<<>>)]

comment1 ==
    [id |-> JNum(1), creationTimeSeconds |-> JNum(1267562173),
     commentatorHandle |-> JStr("Petr"), locale |-> JStr("en"), text |-> JStr("hi"),
     parentCommentId |-> JNull, rating |-> JNum(0)]
comment2 == [comment1 EXCEPT !.id = JNum(2), !.parentCommentId = JNum(1)]

ratingChange1 ==
    [contestId |-> JNum(566), contestName |-> JStr("VK Cup"), handle |-> JStr("tourist"),
     rank |-> JNum(1), ratingUpdateTimeSeconds |-> JNum(1438284000),
     oldRating |-> JNum(3200), newRating |-> JNum(3250)]
ratingChange2 == [ratingChange1 EXCEPT !.handle = JStr("Petr"), !.rank = JNum(2)]

contest1 ==
    [id |-> JNum(566), name |-> JStr("VK Cup"), type |-> JStr("CF"),
     phase |-> JStr("FINISHED"), frozen |-> JBool(FALSE), durationSeconds |-> JNum(7200),
     startTimeSeconds |-> JNum(1438273200), relativeTimeSeconds |-> JNum(-5),
     preparedBy |-> JNull, websiteUrl |-> JStr("http://codeforces.com/contest/566"),
     description |-> JNull, difficulty |-> JNum(DifficultyLe),
     kind |-> JStr("Training Contest"), icpcRegion |-> JNull, country |-> JNull,
     city |-> JNull, season |-> JStr("2015-2016")]
contest2 ==
    [contest1 EXCEPT !.id = JNum(567), !.type = JStr("ICPC"),
                     !.difficulty = JNum(DifficultyGe), !.kind = JNull]

member1 == [handle |-> JStr("tourist"), name |-> JNull]
party1 ==
    [contestId |-> JNum(566), members |-> JList(<<JObj(member1)>>),
     participantType |-> JStr("CONTESTANT"), teamId |-> JNull, teamName |-> JNull,
     ghost |-> JBool(FALSE), room |-> JNum(5), startTimeSeconds |-> JNum(1438273200)]
party2 == [party1 EXCEPT !.participantType = JStr("VIRTUAL"), !.room = JNull]

problem1 ==
    [contestId |-> JNum(566), problemsetName |-> JNull, index |-> JStr("A"),
     name |-> JStr("Matching Names"), type |-> JStr("PROGRAMMING"),
     points |-> JNum(1750), rating |-> JNum(2300),
     tags |-> JList(<<JStr("dfs and similar"), JStr("strings")>>)]
problem2 == [problem1 EXCEPT !.index = JStr("B"), !.points = JNull]

problemStatistics1 ==
    [contestId |-> JNum(566), index |-> JStr("A"), solvedCount |-> JNum(1200)]
problemStatistics2 == [problemStatistics1 EXCEPT !.index = JStr("B")]

submission1 ==
    [id |-> JNum(12291750), contestId |-> JNum(566),
     creationTimeSeconds |-> JNum(1438274514), relativeTimeSeconds |-> JNum(1314),
     problem |-> JObj(problem1), author |-> JObj(party1),
     programmingLanguage |-> JStr("GNU C++"), verdict |-> JStr("OK"),
     testset |-> JStr("TESTS"), passedTestCount |-> JNum(19),
     timeConsumedMillis |-> JNum(46), memoryConsumedBytes |-> JNum(0),
     points |-> JNull]
submission2 ==
    [submission1 EXCEPT !.id = JNum(12291751), !.verdict = JNull,
                        !.author = JObj(party2)]

judgeProtocol1 ==
    [manual |-> JBool(FALSE), protocol |-> JStr("ok"), verdict |-> JStr("IGNORED")]
hack1 ==
    [id |-> JNum(160426), creationTimeSeconds |-> JNum(1438275000),
     hacker |-> JObj(party1), defender |-> JObj(party2),
     verdict |-> JStr("HACK_SUCCESSFUL"), problem |-> JObj(problem1), test |-> JNull,
     judgeProtocol |-> JObj(judgeProtocol1)]
hack2 == [hack1 EXCEPT !.id = JNum(160427), !.judgeProtocol = JNull]

recentAction1 ==
    [timeSeconds |-> JNum(1438275000), blogEntry |-> JObj(blogEntry1),
     comment |-> JObj(comment1)]
recentAction2 == [recentAction1 EXCEPT !.comment = JObj(comment2)]

problemResult1 ==
    [points |-> JNum(1750), penalty |-> JNull, rejectedAttemptCount |-> JNum(0),
     type |-> JStr("FINAL"), bestSubmissionTimeSeconds |-> JNum(1314)]
ranklistRow1 ==
    [party |-> JObj(party1), rank |-> JNum(1), points |-> JNum(1750),
     penalty |-> JNum(0), successfulHackCount |-> JNum(1),
     unsuccessfulHackCount |-> JNum(0),
     problemResults |-> JList(<<JObj(problemResult1)>>),
     lastSubmissionTimeSeconds |-> JNull]
contestStandings1 ==
    [contest |-> JObj(contest1), problems |-> JList(<<JObj(problem1), JObj(problem2)>>),
     rows |-> JList(<<JObj(ranklistRow1)>>)]
contestStandings2 ==
    [contestStandings1 EXCEPT !.contest = JObj(contest2), !.rows = JList(<<>>)]

Valid(cls) ==
    CASE cls = "User" -> <<JObj(user1), JObj(user2)>>
      [] cls = "BlogEntry" -> <<JObj(blogEntry1), JObj(blogEntry2)>>
      [] cls = "Comment" -> <<JObj(comment1), JObj(comment2)>>
      [] cls = "RatingChange" -> <<JObj(ratingChange1), JObj(ratingChange2)>>
      [] cls = "Contest" ->
            <<JObj(contest1), JObj(contest2),
              JObj([contest1 EXCEPT !.difficulty = JNum(DifficultyGe + 2)])>>
      [] cls = "Problem" -> <<JObj(problem1), JObj(problem2)>>
      [] cls = "ProblemStatistics" ->
            <<JObj(problemStatistics1), JObj(problemStatistics2)>>
      [] cls = "Submission" -> <<JObj(submission1), JObj(submission2)>>
      [] cls = "Hack" -> <<JObj(hack1), JObj(hack2)>>
      [] cls = "RecentAction" -> <<JObj(recentAction1), JObj(recentAction2)>>
      [] cls = "ContestStandings" ->
            <<JObj(contestStandings1), JObj(contestStandings2)>>

Invalid(cls) ==
    CASE cls = "User" -> {JObj([user1 EXCEPT !.friendOfCount = JNum(-1)])}
      [] cls = "BlogEntry" -> {JObj(Without(blogEntry1, {"title"}))}
      [] cls = "Comment" -> {JObj([comment1 EXCEPT !.rating = JNum(-2)])}
      [] cls = "RatingChange" -> {JObj([ratingChange1 EXCEPT !.rank = JNum(0)])}
      [] cls = "Contest" ->
            {JObj([contest1 EXCEPT !.difficulty = JNum(DifficultyLe + 2)]),
             JObj([contest1 EXCEPT !.difficulty = JNum(DifficultyLe + 1)]),
             JObj([contest1 EXCEPT !.difficulty = JNum(DifficultyGe - 1)]),
             JObj([contest1 EXCEPT !.phase = JStr("OVER")])}
      [] cls = "Problem" -> {JObj([problem1 EXCEPT !.tags = JNull])}
      [] cls = "ProblemStatistics" ->
            {JObj([problemStatistics1 EXCEPT !.solvedCount = JNum(-1)])}
      [] cls = "Submission" -> {JObj([submission1 EXCEPT !.testset = JStr("TESTS11")])}
      [] cls = "Hack" -> {JObj([hack1 EXCEPT !.hacker = JNull])}
      [] cls = "RecentAction" ->
            {JObj([recentAction1 EXCEPT !.comment = JObj(Without(comment1, {"id"}))])}
      [] cls = "ContestStandings" ->
            {JObj(Without(contestStandings1, {"rows"})),
             JObj([contestStandings1 EXCEPT
                      !.contest = JObj([contest1 EXCEPT
                                           !.difficulty = JNum(DifficultyLe + 2)])])}

Loose(cls) ==
    CASE cls = "User" ->
            {JObj([k \in (DOMAIN user1 \ {"lastNam"}) \cup {"lastName"} |->
                      IF k = "lastName" THEN JStr("Korotkevich") ELSE user1[k]])}
      [] cls = "Contest" ->
            {JObj(Without(contest1, {"difficulty", "kind", "icpcRegion"})),
             JObj([contest1 EXCEPT !.kind = JStr("Cup")])}
      [] OTHER -> {}

SeqRange(l) == {l[i] : i \in 1..Len(l)}
Samples(cls) == SeqRange(Valid(cls)) \cup Invalid(cls) \cup Loose(cls)

Absent == [t |-> "absent"]

\* the JSON object with the keys that are given
Envelope(status, comment, result) ==
    JObj([k \in {key \in {"status", "comment", "result"} :
                    CASE key = "status" -> status # Absent
                      [] key = "comment" -> comment # Absent
                      [] key = "result" -> result # Absent} |->
            CASE k = "status" -> status
              [] k = "comment" -> comment
              [] k = "result" -> result])

Comments == {"contestId: Contest not found"}
StatusValues == {Absent, JStr("OK"), JStr("FAILED"), JStr("ERROR")}
CommentValues == {Absent} \cup {JStr(c) : c \in Comments}

ListsOf(cls, n) == {JList(l) : l \in SeqsUpTo(Samples(cls), n)}

Results(methodName) ==
    CASE methodName \in ListMethods ->
            ListsOf(ElementClass(methodName), MaxResultLen) \cup {JNull}
      [] methodName = "blogEntry.view" -> Samples("BlogEntry") \cup {JNull}
      [] methodName = "contest.standings" -> Samples("ContestStandings") \cup {JNull}
      [] methodName = "problemset.problems" ->
            {JList(<<ps, st>>) : ps \in ListsOf("Problem", MaxResultLen),
                                 st \in ListsOf("ProblemStatistics", 1)}
            \cup {JObj([problems |-> JList(<<JObj(problem1)>>),
                        problemStatistics |-> JList(<<JObj(problemStatistics1)>>)]),
                  JList(<<>>), JNull}
      [] methodName = "user.friends" ->
            {JList(l) : l \in SeqsUpTo({JStr(h) : h \in Handles}, MaxResultLen)}
            \cup {JNull}

Bodies200(methodName) ==
    {NotJson("<html>"), Json(JList(<<>>))}
    \cup {Json(Envelope(st, cm, rs)) :
            st \in StatusValues, cm \in CommentValues,
            rs \in Results(methodName) \cup {Absent}}

ErrorStatuses == {400, 404, 503}
ErrorBodies ==
    {NotJson("<html>"),
     Json(Envelope(JStr("FAILED"), JStr("contestId: Contest not found"), Absent))}

Init == /\ pc = "idle"
        /\ method = ""
        /\ args = <<>>
        /\ payload = <<>>
        /\ query = <<>>
        /\ auth = NoAuth
        /\ sent = 0
        /\ response = NoResponse
        /\ outcome = NoOutcome
        /\ printed = ""

\* a variant that tries again after an exception of requests.get
RequestsAfterRetry(got) == IF got.kind = "exception" THEN 1 ELSE 0

\* GETs issued by the statements after requests.get has returned or raised
RequestsAfter(got) == 0

\* requests.get has returned or raised: the rest of the function body runs
Complete(got, build) ==
    /\ pc = "sent"
    /\ \E e \in {Endpoint(method, got, build)} :
          /\ outcome' = e.outcome
          /\ printed' = e.printed
    /\ response' = got
    /\ sent' = sent + RequestsAfter(got)
    /\ pc' = "done"
    /\ UNCHANGED <<method, args, payload, query, auth>>

RecvTimeout == \E build \in Builds : Complete(Raised("Timeout"), build)

RecvConnectionError == \E build \in Builds : Complete(Raised("ConnectionError"), build)

RecvHttpError ==
    \E status \in ErrorStatuses, body \in ErrorBodies, build \in Builds :
        Complete(Http(status, body), build)

RecvHttp200 ==
    /\ pc = "sent"
    /\ \E body \in Bodies200(method), build \in Builds :
          Complete(Http(StatusOk, body), build)

\* the caller has the outcome; nothing of the call survives it
Finish ==
    /\ pc \in {"done", "signed"}
    /\ pc' = "idle"
    /\ method' = ""
    /\ args' = <<>>
    /\ payload' = <<>>
    /\ query' = <<>>
    /\ auth' = NoAuth
    /\ sent' = 0
    /\ response' = NoResponse
    /\ outcome' = NoOutcome
    /\ printed' = ""

\* getCfAuth called on its own with a payload of the caller's; pc = "signed"
\* is the state in which it has returned
AuthPayloadItems ==
    {Item("activeOnly", PyBool(TRUE)), Item("asManager", PyBool(FALSE)),
     Item("count", PyInt(5)), Item("onlyOnline", PyBool(TRUE)),
     Item("onlyOnline", PyNone)}

AuthPayloads ==
    {d \in SeqsUpTo(AuthPayloadItems, MaxHandles) :
        \A i, j \in 1..Len(d) : i # j => d[i].k # d[j].k}

AuthMethods == {"user.friends", "contest.hacks"}

getCfAuthCall ==
    /\ pc = "idle"
    /\ pc' = "signed"
    /\ \E key \in ApiKeys, secret \in Secrets, methodName \in AuthMethods,
          d \in AuthPayloads, currTime \in Times, rand \in Nonces, addr \in Addrs :
            auth' = getCfAuth(key, secret, methodName, d, currTime, rand, addr)
    /\ UNCHANGED <<method, args, payload, query, sent, response, outcome, printed>>

Next ==
    \/ getBlogEntryComments
    \/ getBlogEntryView
    \/ getContestHacks
    \/ getContestList
    \/ getContestRatingChanges
    \/ getContestStandings
    \/ getContestStatus
    \/ getProblemsetProblems
    \/ getProblemsetRecentStatus
    \/ getRecentActions
    \/ getUserBlogEntries
    \/ getUserFriends
    \/ getUserInfo
    \/ getUserRatedList
    \/ getUserRating
    \/ getUserStatus
    \/ getCfAuthCall
    \/ RecvTimeout
    \/ RecvConnectionError
    \/ RecvHttpError
    \/ RecvHttp200
    \/ Finish

Spec == Init /\ [][Next]_vars

\* timeout=timeout: a request that stays unanswered ends in Timeout
FairSpec == Spec /\ WF_vars(RecvTimeout)

(***************************************************************************)
(* Properties.                                                             *)
(***************************************************************************)
Got200 == pc = "done" /\ response.kind = "http" /\ response.status = StatusOk

\* the body of the response is a JSON object
GotObject == Got200 /\ response.body.json /\ response.body.value.t = "obj"

EnvelopeHas(key) == key \in DOMAIN response.body.value.o
EnvelopeAt(key) == response.body.value.o[key]

\* C1: whatever the one request of an endpoint call gives (timeout, connection
\* failure, a status other than 200, a 200 body that is not JSON, a FAILED
\* envelope, a result of the wrong shape), the call ends by returning a value
\* (a typed result or None): no exception reaches the caller.
C1_NoExceptionEscapes == pc = "done" => outcome.kind = "return"

RECURSIVE SameValue(_, _)
\* the typed value tv has the fields and elements of the JSON value jv
SameValue(tv, jv) ==
    CASE tv.t = "model" ->
            /\ jv.t = "obj"
            /\ DOMAIN tv.f = DOMAIN jv.o
            /\ \A n \in DOMAIN tv.f : SameValue(tv.f[n], jv.o[n])
      [] tv.t = "list" ->
            /\ jv.t = "list"
            /\ Len(tv.l) = Len(jv.l)
            /\ \A i \in 1..Len(tv.l) : SameValue(tv.l[i], jv.l[i])
      [] OTHER -> tv = jv

\* a list method got 200, status "OK" and a result list whose elements all
\* conform to the declared class
C2_Conforming ==
    /\ GotObject
    /\ method \in ListMethods
    /\ EnvelopeHas("status") /\ EnvelopeAt("status") = JStr("OK")
    /\ EnvelopeHas("result") /\ EnvelopeAt("result").t = "list"
    /\ \A i \in 1..Len(EnvelopeAt("result").l) :
          EnvelopeAt("result").l[i] \in SeqRange(Valid(ElementClass(method)))

\* C2: a list-returning call that gets 200, status "OK" and a result list of
\* n conforming elements returns a list of exactly n typed elements of the
\* method's class, in the order of the response, each field for field equal
\* to the element it was decoded from.
C2_ListDecoded ==
    C2_Conforming =>
        /\ outcome.kind = "return"
        /\ outcome.value.t = "list"
        /\ Len(outcome.value.l) = Len(EnvelopeAt("result").l)
        /\ \A i \in 1..Len(outcome.value.l) :
              /\ outcome.value.l[i].t = "model"
              /\ outcome.value.l[i].cls = ElementClass(method)
              /\ SameValue(outcome.value.l[i], EnvelopeAt("result").l[i])

\* getUserInfo got two different valid users, tourist first, and returned them
C2_Witness ==
    /\ C2_Conforming
    /\ method = "user.info"
    /\ args.handles = PyList(<<"tourist", "Petr">>)
    /\ EnvelopeAt("result") = JList(<<JObj(user1), JObj(user2)>>)
    /\ outcome.kind = "return"
    /\ Len(outcome.value.l) = 2
    /\ outcome.value.l[1].f.handle = JStr("tourist")
    /\ outcome.value.l[2].f.handle = JStr("Petr")

\* the outcome the specification names for a request the service rejected
ApiFailure(comment) == [kind |-> "failure", class |-> "ApiFailure", comment |-> comment]

\* C3: a 200 response whose envelope is {"status": "FAILED", "comment": c},
\* with no "result" key, makes the call yield an ApiFailure carrying exactly
\* c (as its outcome, or at least in its diagnostic), and nothing is raised.
C3_FailedGivesApiFailure ==
    (/\ GotObject
     /\ DOMAIN response.body.value.o = {"status", "comment"}
     /\ EnvelopeAt("status") = JStr("FAILED"))
    => /\ outcome.kind # "raise"
       /\ \/ outcome = ApiFailure(EnvelopeAt("comment").s)
          \/ Contains(printed, EnvelopeAt("comment").s)

\* C4: a call returns a typed (not None) result only if the 200 body's
\* status is "OK"; a body whose status is missing or is neither "OK" nor
\* "FAILED" is never decoded into a typed result.
C4_TypedOnlyIfStatusOk ==
    (pc = "done" /\ outcome.kind = "return" /\ outcome.value # PyNone)
    => /\ GotObject
       /\ EnvelopeHas("status")
       /\ EnvelopeAt("status") = JStr("OK")

\* the name under which an argument is sent
ParamName(arg) == IF arg = "from_" THEN "from" ELSE arg

InCall == pc \in {"sent", "done"}

\* C5: in every call, no argument the caller left unset (None) has its name
\* among the keys of the query that is transmitted: the parameter is left
\* out, not sent empty, as null or as the text "None".
C5_NoUnsetKeyOnWire ==
    InCall =>
        \A a \in DOMAIN args :
            args[a] = PyNone =>
                \A i \in 1..Len(query) : query[i].k # ParamName(a)

\* getContestStandings with asManager unset and count set: the payload holds
\* both keys, the query only count
C5_Witness ==
    /\ pc = "sent"
    /\ method = "contest.standings"
    /\ args.asManager = PyNone
    /\ args.count = PyInt(5)
    /\ "asManager" \in Keys(payload)
    /\ "count" \in Keys(query)
    /\ "asManager" \notin Keys(query)

\* the list-valued argument of a method, and the key it is sent under
ListParam ==
    CASE method \in {"user.info", "contest.standings"} -> "handles"
      [] method = "problemset.problems" -> "tags"

HasListParam ==
    /\ InCall
    /\ method \in {"user.info", "contest.standings", "problemset.problems"}
    /\ args[ListParam].t = "list"

\* C6: a non-empty list [a, b, c] given for handles or tags is sent as the
\* one value "a;b;c", in the caller's order, and an empty list is sent as
\* nothing: its key is not in the query, not even with an empty value.
C6_ListParamJoined ==
    HasListParam =>
        IF args[ListParam].l # <<>>
        THEN \E i \in 1..Len(query) :
                /\ query[i] = Item(ListParam, Join(";", args[ListParam].l))
                /\ \A j \in 1..Len(query) : query[j].k = ListParam => j = i
        ELSE ListParam \notin Keys(query)

Signed == auth # NoAuth

\* C7: the apiSig that getCfAuth puts into the payload is the nonce followed
\* by the lowercase hexadecimal SHA-512 digest of the signing string.
C7_ApiSigIsNonceHex ==
    Signed => DictGet(auth.payload, "apiSig") = PyStr(auth.rand \o HexDigest(auth.hash))

\* the parameters that are signed: the returned mapping without apiSig
SignedParams == SelectSeq(auth.payload, LAMBDA it : it.k # "apiSig")

\* the place of a parameter among the signed ones when ordered by name
Rank(it) ==
    1 + Cardinality({j \in 1..Len(SignedParams) : StrLess(SignedParams[j].k, it.k)})

ParamAt(r) ==
    SignedParams[CHOOSE i \in 1..Len(SignedParams) : Rank(SignedParams[i]) = r]

\* C8: the signing string is {nonce}/{methodName}?{sortedParams}#{secret};
\* sortedParams holds every parameter of the mapping, apiKey and time among
\* them and apiSig not, each once as name=value, in strictly ascending order
\* of the names, joined with "&".
C8_SigningString ==
    Signed =>
        /\ {"apiKey", "time"} \subseteq Keys(SignedParams)
        /\ \A i, j \in 1..Len(SignedParams) :
              i # j => SignedParams[i].k # SignedParams[j].k
        /\ auth.randStr =
              auth.rand \o "/" \o auth.methodName \o "?"
              \o Join("&", [r \in 1..Len(SignedParams) |->
                               ParamAt(r).k \o "=" \o Str(ParamAt(r).v)])
              \o "#" \o Str(auth.secret)

\* getUserFriends(K, S, onlyOnline=True) at time 1700000000 with nonce abcdef
C8_Witness ==
    /\ pc = "sent"
    /\ method = "user.friends"
    /\ args.onlyOnline = PyBool(TRUE)
    /\ auth.randStr = "abcdef/user.friends?apiKey=K&onlyOnline=True&time=1700000000#S"

\* C9: a call of an endpoint issues exactly one GET: never a second one, on
\* no path, and the call ends (with its result or its failure) after that
\* one attempt.
C9_OneRequestThenEnd ==
    /\ [](InCall => sent = 1)
    /\ [](~InCall => sent = 0)
    /\ (pc = "sent" ~> pc = "done")

\* a call that timed out has ended after its one request
C9_Witness ==
    /\ pc = "done"
    /\ response = Raised("Timeout")
    /\ sent = 1
    /\ outcome = Return(PyNone)

\* C10: a response with a status other than 200 makes the call return None
\* together with a failure description that carries the status code, and
\* what the caller gets differs from that of a timeout and of a connection
\* failure.
C10_HttpFailureCarriesStatus ==
    (pc = "done" /\ response.kind = "http" /\ response.status # StatusOk)
    => /\ outcome = Return(PyNone)
       /\ Contains(printed, IntToStr(response.status))
       /\ printed # Message(method, "Timeout", response)
       /\ printed # Message(method, "ConnectionError", response)

\* the Contest objects of the result that was received: the elements of
\* the list for contest.list, the contest of the standings
ReceivedContests ==
    IF ~(GotObject /\ EnvelopeHas("result")) THEN {}
    ELSE IF method = "contest.list" /\ EnvelopeAt("result").t = "list"
    THEN SeqRange(EnvelopeAt("result").l)
    ELSE IF /\ method = "contest.standings"
            /\ EnvelopeAt("result").t = "obj"
            /\ "contest" \in DOMAIN EnvelopeAt("result").o
    THEN {EnvelopeAt("result").o.contest}
    ELSE {}

\* the typed Contest objects of the value that was returned
ReturnedContests ==
    IF ~(pc = "done" /\ outcome.kind = "return") THEN {}
    ELSE IF method = "contest.list" /\ outcome.value.t = "list"
    THEN SeqRange(outcome.value.l)
    ELSE IF method = "contest.standings" /\ outcome.value.t = "model"
    THEN {outcome.value.f.contest}
    ELSE {}

DifficultyRange == DifficultyGe..DifficultyLe

\* the JSON object carries a number for difficulty, and it is out of range
OutOfRange(c) ==
    /\ c.t = "obj"
    /\ "difficulty" \in DOMAIN c.o
    /\ c.o.difficulty.t = "num"
    /\ c.o.difficulty.i \notin DifficultyRange

\* the JSON object is a valid contest whose difficulty is d
ContestOfDifficulty(c, d) ==
    \E base \in {contest1, contest2} : c = JObj([base EXCEPT !.difficulty = JNum(d)])

\* C11: no Contest whose difficulty is present and outside 1..5 is ever in
\* a returned result: a result that holds such a contest (difficulty 7, or
\* any integer below 1 or above 5) fails validation, and the difficulties
\* 1, 2, 3, 4 and 5 are accepted: a contest list of valid contests with
\* such difficulties is returned with the difficulties as they came.
C11_DifficultyInRange ==
    /\ \A c \in ReturnedContests :
          c.f.difficulty # JNull => c.f.difficulty.i \in DifficultyRange
    /\ (\E c \in ReceivedContests : OutOfRange(c)) => outcome = Raise("ValidationError")
    /\ (/\ method = "contest.list"
        /\ ReceivedContests # {}
        /\ \A c \in ReceivedContests : \E d \in DifficultyRange : ContestOfDifficulty(c, d))
       => /\ outcome.kind = "return"
          /\ {c.f.difficulty : c \in ReturnedContests}
                = {c.o.difficulty : c \in ReceivedContests}
    /\ (pc = "done" /\ method = "contest.list")
       => \A build \in Builds, d \in (DifficultyGe - 2)..(DifficultyLe + 2) :
             parse_obj("Contest", JObj([contest1 EXCEPT !.difficulty = JNum(d)]), build).ok
                <=> d \in DifficultyRange

\* getContestList got a valid contest followed by one of difficulty 7, and
\* the ValidationError ended the call
C11_Witness ==
    /\ pc = "done"
    /\ method = "contest.list"
    /\ GotObject /\ EnvelopeHas("result")
    /\ EnvelopeAt("result") =
          JList(<<JObj(contest2), JObj([contest1 EXCEPT !.difficulty = JNum(7)])>>)
    /\ outcome = Raise("ValidationError")

\* the name=value pairs that getCfAuth put into the signing string
SignedPairs == {ParamText(SignedParams[i]) : i \in 1..Len(SignedParams)}

\* the name=value pairs of the query that is transmitted, apiSig apart
SentPairs ==
    {query[i].k \o "=" \o query[i].v : i \in {j \in 1..Len(query) : query[j].k # "apiSig"}}

\* C12: in an authenticated call (getUserFriends) the name=value pairs of
\* the signing string are the name=value pairs that are transmitted, apiSig
\* apart; an unset onlyOnline is dropped before signing and is not in the
\* signing string.
C12_SignedPairsAreSent ==
    (InCall /\ method = "user.friends") =>
        /\ SignedPairs = SentPairs
        /\ args.onlyOnline = PyNone => ~Contains(auth.randStr, "onlyOnline")

\* the text a set argument has on the wire: a list joined with ";", any
\* other value as its str()
WireText(v) == IF v.t = "list" THEN Join(";", v.l) ELSE Str(v)

\* the arguments of the call that the caller set and that are parameters of
\* the request: not the credentials of getUserFriends, and not an empty
\* list, which stands for an absent parameter
SetArguments ==
    {a \in DOMAIN args :
        /\ args[a] # PyNone
        /\ a \notin {"key", "secret"}
        /\ args[a] # PyList(<<>>)}

\* C13: in every call, every argument of the signature that the caller set
\* to a value other than None is a key of the query that is transmitted,
\* with that value (from_ and count of getUserStatus, room and
\* showUnofficial of getContestStandings): none is silently discarded.
C13_SetArgumentsOnWire ==
    InCall =>
        \A a \in SetArguments :
            \E i \in 1..Len(query) : query[i] = Item(ParamName(a), WireText(args[a]))
====
